---- MODULE Spec2Model ----
(***************************************************************************)
(* Model of the time-lapse frame preprocessor.                             *)
(*                                                                         *)
(*   FramePreprocessor.preprocess_frames  (frame_preprocessor.py)          *)
(*       check options, discover images, read EXIF, sort, fix the          *)
(*       sequence indices and the first frame's DST status, submit one     *)
(*       task per image to a thread pool, collect the results.             *)
(*   FramePreprocessor.__process_image    (frame_preprocessor.py)          *)
(*   SingleFrameProcessor.process_frame   (single_frame_processor.py)      *)
(*       the two per-frame workers.                                        *)
(*                                                                         *)
(* Time is in integer seconds.  The timeline has MaxDay days; the local    *)
(* naive date of a timestamp is its day number.  Optional values (Python   *)
(* None) are sequences of length 0 or 1.                                   *)
(***************************************************************************)
EXTENDS Integers, Sequences, FiniteSets, TLC

VARIABLES
    impl,                 \* which worker the tasks run
    options,              \* FramePreprocessorOptions (frozen)
    exif,                 \* file -> ExifData, what ExifReader finds in each file
    pc,                   \* position of the main thread in preprocess_frames
    image_paths,          \* list of discovered files
    images_data,          \* dict image_path -> ImageData
    sorted_image_paths,   \* image_paths sorted by timestamp
    image_ids,            \* dict image_path -> index
    is_first_frame_in_daylight_savings,   \* <<>> until it is assigned
    futures_list,         \* the submitted tasks, in submission order
    next_image,           \* position of the EXIF loop in image_paths
    collected,            \* futures already yielded by as_completed
    error,                \* the exception leaving preprocess_frames, <<>> if none
    output_dirs,          \* subfolders this run created under output_dir
    output_files          \* files this run wrote

vars == <<impl, options, exif, pc, image_paths, images_data, sorted_image_paths,
          image_ids, is_first_frame_in_daylight_savings, futures_list,
          next_image, collected, error, output_dirs, output_files>>

---------------------------------------------------------------------------
(* Bounds of the model *)

NumFiles == 2        \* image files in the input tree
MaxWorkers == 2      \* largest worker_thread_count tried
MaxDay == 3          \* days of the timeline

(* Program constants *)

MAX_IMAGES_PER_FOLDER == 500

SecondsPerHour == 60 * 60
SecondsPerDay == 24 * SecondsPerHour
DstShiftSeconds == 60 * 60
OldFadeSeconds == 30 * 60
OldNightMarginSeconds == 60 * 60
HardCodedTimezone == "Europe/Belgrade"

None == <<>>
Some(v) == <<v>>
IsNone(x) == x = <<>>
Val(x) == x[1]

Files == 1..NumFiles
Days == 1..MaxDay

---------------------------------------------------------------------------
(* External collaborators: pytz and suntimes *)

KnownTimezones == {"Europe/Belgrade", "America/New_York"}

\* The naive local date of a timestamp (date.fromtimestamp).
DateOf(ts) == ts \div SecondsPerDay

\* pytz's view of a naive local time in a zone.  Europe/Belgrade springs
\* forward on day 2 (02:00-03:00 does not exist) and falls back on day 3
\* (02:00-03:00 is ambiguous); America/New_York is in DST until it falls
\* back on day 2 (01:00-02:00 ambiguous).
DstStatus(ts, tz) ==
    IF tz = "Europe/Belgrade"
    THEN IF ts < 2 * SecondsPerDay + 2 * SecondsPerHour THEN "std"
         ELSE IF ts < 2 * SecondsPerDay + 3 * SecondsPerHour THEN "nonexistent"
         ELSE IF ts < 3 * SecondsPerDay + 2 * SecondsPerHour THEN "dst"
         ELSE IF ts < 3 * SecondsPerDay + 3 * SecondsPerHour THEN "ambiguous"
         ELSE "std"
    ELSE IF ts < 2 * SecondsPerDay + 1 * SecondsPerHour THEN "dst"
         ELSE IF ts < 2 * SecondsPerDay + 2 * SecondsPerHour THEN "ambiguous"
         ELSE "std"

\* Sunrise and sunset of a date at a latitude (SunTimes.risewhere/setwhere):
\* 06:00 and 18:00, or 11:00 and 13:00 far north.
SunriseOf(date, latitude) ==
    date * SecondsPerDay + (IF latitude > 66 THEN 11 ELSE 6) * SecondsPerHour

SunsetOf(date, latitude) ==
    date * SecondsPerDay + (IF latitude > 66 THEN 13 ELSE 18) * SecondsPerHour

---------------------------------------------------------------------------
(* DatetimeUtils.is_in_daylight_savings / FramePreprocessor.__is_daylight_savings *)

\* The exception the DST test raises, "" when it returns.  Only
\* AmbiguousTimeError is caught.
DaylightSavingsException(timestamp_s, timezone) ==
    IF timezone \notin KnownTimezones THEN "UnknownTimeZoneError"
    ELSE IF DstStatus(timestamp_s, timezone) = "nonexistent" THEN "NonExistentTimeError"
    ELSE ""

IsInDaylightSavings(timestamp_s, timezone) ==
    IF DstStatus(timestamp_s, timezone) = "ambiguous" THEN FALSE
    ELSE DstStatus(timestamp_s, timezone) = "dst"

---------------------------------------------------------------------------
(* What differs between the two workers *)

WorkerTimezone == IF impl = "FramePreprocessor" THEN HardCodedTimezone ELSE options.timezone
WorkerFadeSeconds == IF impl = "FramePreprocessor" THEN OldFadeSeconds ELSE options.fade_seconds
WorkerNightMarginSeconds ==
    IF impl = "FramePreprocessor" THEN OldNightMarginSeconds ELSE options.night_margin_seconds
WorkerLatitude(image_data) ==
    IF impl = "FramePreprocessor" THEN image_data.latitude ELSE Val(options.latitude)

---------------------------------------------------------------------------
(* The per-frame computation *)

SwappedAdjustedTimestamp(timestamp_s, enabled, first_in_dst, frame_in_dst) ==
    IF ~enabled THEN timestamp_s
    ELSE IF first_in_dst /\ ~frame_in_dst THEN timestamp_s + DstShiftSeconds
    ELSE IF ~first_in_dst /\ frame_in_dst THEN timestamp_s - DstShiftSeconds
    ELSE timestamp_s

GetDaylightSavingsAdjustedTimestamp(timestamp_s, enabled, first_in_dst, frame_in_dst) ==
    IF ~enabled THEN timestamp_s
    ELSE IF first_in_dst /\ ~frame_in_dst THEN timestamp_s - DstShiftSeconds
    ELSE IF ~first_in_dst /\ frame_in_dst THEN timestamp_s + DstShiftSeconds
    ELSE timestamp_s

SkipOnlyBeforeEarliest(seconds_since_earliest_frame, seconds_until_latest_frame) ==
    seconds_since_earliest_frame < 0

IsOutsideRange(seconds_since_earliest_frame, seconds_until_latest_frame) ==
    seconds_since_earliest_frame < 0 \/ seconds_until_latest_frame < 0

CloseToWithoutUpperLimit(seconds, fade_seconds) == 0 <= seconds

CloseTo(seconds, fade_seconds) == 0 <= seconds /\ seconds <= fade_seconds

\* progress as the pair <<numerator, denominator>> of the division
ProgressFromLatestOnly(since_earliest, until_latest, fade_seconds) ==
    <<until_latest, fade_seconds>>

FadeProgress(since_earliest, until_latest, fade_seconds) ==
    IF CloseTo(since_earliest, fade_seconds)
    THEN <<since_earliest, fade_seconds>>
    ELSE <<until_latest, fade_seconds>>

\* assert 0 <= progress <= 1, for a nonzero denominator
ProgressAssertion(progress) ==
    IF progress[2] > 0
    THEN 0 <= progress[1] /\ progress[1] <= progress[2]
    ELSE 0 >= progress[1] /\ progress[1] >= progress[2]

\* f'{image_id:010d}': the decimal digits, left-padded with zeros to the width
RECURSIVE DecimalDigits(_)
DecimalDigits(n) == IF n < 10 THEN <<n>> ELSE Append(DecimalDigits(n \div 10), n % 10)

RECURSIVE ZeroPad(_, _)
ZeroPad(digits, width) == IF Len(digits) >= width THEN digits ELSE ZeroPad(<<0>> \o digits, width)

\* strftime('%Y_%m_%d_%H_%M_%S') of the naive local time: date, hour, minute, second
FormatTimestamp(ts) ==
    <<DateOf(ts), (ts % SecondsPerDay) \div SecondsPerHour, (ts % SecondsPerHour) \div 60, ts % 60>>

IsBeforeSunrise(timestamp_s, sunrise) == timestamp_s - sunrise < 0
IsAfterSunset(timestamp_s, sunset) == sunset - timestamp_s < 0

\* FramePreprocessor.__get_night_flag
GetNightFlag(timestamp_s, sunrise, sunset) ==
    IF IsBeforeSunrise(timestamp_s, sunrise) THEN <<"_b">>
    ELSE IF IsAfterSunset(timestamp_s, sunset) THEN <<"_a">>
    ELSE <<>>

DaylightSavingsFlagNever(frame_timestamp_s, non_adjusted_timestamp_s) == <<>>

DaylightSavingsFlag(frame_timestamp_s, non_adjusted_timestamp_s) ==
    IF frame_timestamp_s # non_adjusted_timestamp_s THEN <<"_d">> ELSE <<>>

\* The output path: subfolder, and the parts of the file name.
GenerateOutputImagePath(image_id, frame_timestamp_s, sunrise, sunset, non_adjusted_timestamp_s) ==
    [subfolder |-> ZeroPad(DecimalDigits(image_id \div MAX_IMAGES_PER_FOLDER), 3),
     image_id_str |-> ZeroPad(DecimalDigits(image_id), 10),
     image_time_str |-> FormatTimestamp(frame_timestamp_s),
     flags |-> (IF impl = "FramePreprocessor"
                THEN GetNightFlag(frame_timestamp_s, sunrise, sunset)
                ELSE (IF IsBeforeSunrise(frame_timestamp_s, sunrise) THEN <<"_b">> ELSE <<>>)
                     \o (IF IsAfterSunset(frame_timestamp_s, sunset) THEN <<"_a">> ELSE <<>>))
               \o DaylightSavingsFlag(frame_timestamp_s, non_adjusted_timestamp_s),
     extension |-> ".jpg"]

---------------------------------------------------------------------------
(* A submitted task: the arguments of the worker and where it stands *)

NewTask(image_path, image_id, image_data) ==
    [image_path |-> image_path, image_id |-> image_id, image_data |-> image_data,
     pc |-> "queued", adjusted |-> None, sunrise |-> None, sunset |-> None,
     kind |-> "", progress |-> None, new_image_path |-> None, exception |-> ""]

Failed(task, exception) == [task EXCEPT !.pc = "failed", !.exception = exception]

TerminalStates == {"skipped", "written", "failed"}
RunningStates == {"imread", "mkdir", "imwrite", "copy"}

Tasks == 1..Len(futures_list)
IsTerminal(t) == futures_list[t].pc \in TerminalStates
IsRunning(t) == futures_list[t].pc \in RunningStates

\* progress = seconds / fade_seconds; assert 0 <= progress <= 1
WithProgress(task, since_earliest, until_latest, next_pc) ==
    LET progress == FadeProgress(since_earliest, until_latest, WorkerFadeSeconds)
    IN  IF progress[2] = 0 THEN Failed(task, "ZeroDivisionError")
        ELSE IF ~ProgressAssertion(progress)
             THEN Failed([task EXCEPT !.progress = progress], "AssertionError")
             ELSE [task EXCEPT !.progress = progress, !.pc = next_pc]

SecondsSinceEarliest(task) ==
    Val(task.adjusted) - (Val(task.sunrise) - WorkerNightMarginSeconds)

SecondsUntilLatest(task) ==
    (Val(task.sunset) + WorkerNightMarginSeconds) - Val(task.adjusted)

\* The worker from its first line to its first file operation.
Classified(task) ==
    LET raw == task.image_data.timestamp_s
        enabled == options.ignore_daylight_savings_switch
        dst_exception == IF enabled THEN DaylightSavingsException(raw, WorkerTimezone) ELSE ""
    IN  IF dst_exception # "" THEN Failed(task, dst_exception)
        ELSE
        LET adjusted == GetDaylightSavingsAdjustedTimestamp(
                            raw, enabled, Val(is_first_frame_in_daylight_savings),
                            IsInDaylightSavings(raw, WorkerTimezone))
            t1 == [task EXCEPT !.adjusted = Some(adjusted)]
        IN  IF WorkerTimezone \notin KnownTimezones THEN Failed(t1, "UnknownTimeZoneError")
            ELSE
            LET latitude == WorkerLatitude(task.image_data)
                sunrise == SunriseOf(DateOf(adjusted), latitude)
                sunset == SunsetOf(DateOf(adjusted), latitude)
                t2 == [t1 EXCEPT !.sunrise = Some(sunrise), !.sunset = Some(sunset)]
                since == SecondsSinceEarliest(t2)
                until == SecondsUntilLatest(t2)
            IN  IF IsOutsideRange(since, until) THEN [t2 EXCEPT !.pc = "skipped"]
                ELSE
                LET close == CloseTo(since, WorkerFadeSeconds) \/ CloseTo(until, WorkerFadeSeconds)
                    t3 == [t2 EXCEPT
                              !.new_image_path = Some(GenerateOutputImagePath(
                                  task.image_id, adjusted, sunrise, sunset, raw)),
                              !.kind = IF close THEN "fade" ELSE "copy"]
                IN  IF impl = "FramePreprocessor"
                    THEN IF close THEN WithProgress(t3, since, until, "imread")
                         ELSE [t3 EXCEPT !.pc = "mkdir"]
                    ELSE [t3 EXCEPT !.pc = "mkdir"]

\* After the subfolder exists.
AfterMkDir(task) ==
    IF impl = "FramePreprocessor"
    THEN [task EXCEPT !.pc = IF task.kind = "fade" THEN "imwrite" ELSE "copy"]
    ELSE IF task.kind = "fade"
         THEN WithProgress(task, SecondsSinceEarliest(task), SecondsUntilLatest(task), "imread")
         ELSE [task EXCEPT !.pc = "copy"]

\* After cv2.imread and the multiplication by progress.
AfterImRead(task) ==
    [task EXCEPT !.pc = IF impl = "FramePreprocessor" THEN "mkdir" ELSE "imwrite"]

---------------------------------------------------------------------------
(* The thread pool: ThreadPoolExecutor(max_workers = worker_thread_count) *)

StartsUnlessErrorSeen(t) ==
    /\ futures_list[t].pc = "queued"
    /\ \A u \in 1..(t - 1) : futures_list[u].pc # "queued"
    /\ Cardinality({u \in Tasks : IsRunning(u)}) < options.worker_thread_count
    /\ error = None

\* A queued task starts when it is the head of the queue and a thread is free.
CanStart(t) ==
    /\ futures_list[t].pc = "queued"
    /\ \A u \in 1..(t - 1) : futures_list[u].pc # "queued"
    /\ Cardinality({u \in Tasks : IsRunning(u)}) < options.worker_thread_count

WorkerUnchanged ==
    UNCHANGED <<impl, options, exif, pc, image_paths, images_data, sorted_image_paths,
                image_ids, is_first_frame_in_daylight_savings, next_image, collected, error>>

ProcessImage(t) ==
    /\ CanStart(t)
    /\ futures_list' = [futures_list EXCEPT ![t] = Classified(futures_list[t])]
    /\ UNCHANGED <<output_dirs, output_files>>
    /\ WorkerUnchanged

ImRead(t) ==
    /\ futures_list[t].pc = "imread"
    /\ \E readable \in BOOLEAN :
          futures_list' = [futures_list EXCEPT ![t] =
              IF readable THEN AfterImRead(futures_list[t])
              ELSE Failed(futures_list[t], "TypeError")]
    /\ UNCHANGED <<output_dirs, output_files>>
    /\ WorkerUnchanged

MkDir(t) ==
    /\ futures_list[t].pc = "mkdir"
    /\ output_dirs' = output_dirs \cup {Val(futures_list[t].new_image_path).subfolder}
    /\ futures_list' = [futures_list EXCEPT ![t] = AfterMkDir(futures_list[t])]
    /\ UNCHANGED output_files
    /\ WorkerUnchanged

ImWrite(t) ==
    /\ futures_list[t].pc = "imwrite"
    /\ output_files' = output_files \cup {Val(futures_list[t].new_image_path)}
    /\ futures_list' = [futures_list EXCEPT ![t].pc = "written"]
    /\ UNCHANGED output_dirs
    /\ WorkerUnchanged

Copy(t) ==
    /\ futures_list[t].pc = "copy"
    /\ \E copied \in BOOLEAN :
          IF copied
          THEN /\ output_files' = output_files \cup {Val(futures_list[t].new_image_path)}
               /\ futures_list' = [futures_list EXCEPT ![t].pc = "written"]
          ELSE /\ output_files' = output_files
               /\ futures_list' = [futures_list EXCEPT ![t] = Failed(futures_list[t], "OSError")]
    /\ UNCHANGED output_dirs
    /\ WorkerUnchanged

Worker ==
    \/ \E t \in Tasks : ProcessImage(t)
    \/ \E t \in Tasks : ImRead(t)
    \/ \E t \in Tasks : MkDir(t)
    \/ \E t \in Tasks : ImWrite(t)
    \/ \E t \in Tasks : Copy(t)

---------------------------------------------------------------------------
(* The input tree and the run's inputs *)

\* input_dir.is_dir()
ExistingDirs == {"in", "in/sub", "empty"}

\* The image files input_dir.glob('./**/*.*') finds: "in" holds every file,
\* the last of them inside its subdirectory "in/sub".
GlobImages(input_dir) ==
    IF input_dir = "in" THEN [k \in 1..NumFiles |-> k]
    ELSE IF input_dir = "in/sub" THEN <<NumFiles>>
    ELSE <<>>

RECURSIVE DiscoverImages(_)
DiscoverImages(input_dirs) ==
    IF input_dirs = <<>> THEN <<>>
    ELSE GlobImages(Head(input_dirs)) \o DiscoverImages(Tail(input_dirs))

\* Capture times: at night on day 1 (standard time), ten minutes into the
\* morning fade on day 2 (DST), at noon on day 3 (standard time again).
TimestampChoices ==
    { 1 * SecondsPerDay + 2 * SecondsPerHour,
      2 * SecondsPerDay + 5 * SecondsPerHour + 600,
      3 * SecondsPerDay + 12 * SecondsPerHour }

ExifData ==
    [timestamp_s : {None} \cup {Some(ts) : ts \in TimestampChoices},
     latitude : {None, Some(45)},
     longitude : {None, Some(19)}]

ExifDefects(e) ==
    Cardinality({f \in Files : IsNone(e[f].timestamp_s)})
    + Cardinality({f \in Files : IsNone(e[f].latitude)})
    + Cardinality({f \in Files : IsNone(e[f].longitude)})

\* At most one field is missing over all the files.
ExifChoices == {e \in [Files -> ExifData] : ExifDefects(e) <= 1}

\* The defaults of preprocess_frames.parse_args, on an input tree "in".
DefaultOptions ==
    [output_dir_exists |-> FALSE, input_dirs |-> <<"in">>,
     timezone |-> "Europe/Belgrade", latitude |-> None, longitude |-> None,
     resize_to_width |-> None, fade_seconds |-> 900, night_margin_seconds |-> 3600,
     ignore_daylight_savings_switch |-> FALSE, worker_thread_count |-> MaxWorkers]

DstOptions == [DefaultOptions EXCEPT !.ignore_daylight_savings_switch = TRUE]

\* Default coordinates for the images that carry none, on one thread.
LocatedOptions ==
    [DefaultOptions EXCEPT !.latitude = Some(44), !.longitude = Some(20),
                           !.worker_thread_count = 1]

SingleThreadOptions == [DefaultOptions EXCEPT !.worker_thread_count = 1]

OptionChoices ==
    {DefaultOptions, DstOptions, LocatedOptions}
    \cup {[o EXCEPT !.worker_thread_count = n] :
            o \in {DefaultOptions, DstOptions}, n \in 0..MaxWorkers}
    \cup {[DefaultOptions EXCEPT !.input_dirs = <<"in", "in/sub">>],
          [DstOptions EXCEPT !.input_dirs = <<"in/sub", "in">>]}
    \cup {[DefaultOptions EXCEPT !.output_dir_exists = TRUE]}
    \cup {[DefaultOptions EXCEPT !.input_dirs = d] :
            d \in {<<>>, <<"in", "in">>, <<"in", "missing">>, <<"empty">>}}
    \cup {[DefaultOptions EXCEPT !.latitude = Some(v)] : v \in {-91, 91}}
    \cup {[DefaultOptions EXCEPT !.longitude = Some(v)] : v \in {-181, 181}}
    \cup {[SingleThreadOptions EXCEPT !.timezone = "Mars/Olympus"],
          [SingleThreadOptions EXCEPT !.resize_to_width = Some(0)],
          [SingleThreadOptions EXCEPT !.fade_seconds = 14401],
          [SingleThreadOptions EXCEPT !.night_margin_seconds = -1],
          [SingleThreadOptions EXCEPT !.timezone = "America/New_York",
                                      !.ignore_daylight_savings_switch = TRUE]}

---------------------------------------------------------------------------
(* FramePreprocessor.preprocess_frames, the main thread *)

\* The first assertion of __check_options that fails, "" when all pass.
CheckOptions(o) ==
    IF o.output_dir_exists THEN "Output directory already exists"
    ELSE IF Len(o.input_dirs) = 0 THEN "No input directories provided"
    ELSE IF \E k \in 1..Len(o.input_dirs) : o.input_dirs[k] \notin ExistingDirs
         THEN "Input directory does not exist"
    ELSE IF Len(o.input_dirs) # Cardinality({o.input_dirs[k] : k \in 1..Len(o.input_dirs)})
         THEN "Duplicate input directories"
    ELSE IF ~(o.worker_thread_count > 0) THEN "Invalid worker thread count"
    ELSE IF ~IsNone(o.latitude) /\ ~(-90 <= Val(o.latitude) /\ Val(o.latitude) <= 90)
         THEN "Latitude out of range"
    ELSE IF ~IsNone(o.longitude) /\ ~(-180 <= Val(o.longitude) /\ Val(o.longitude) <= 180)
         THEN "Longitude out of range"
    ELSE ""

\* The first assertion of the EXIF loop that fails for one image, "" when all pass.
ExifAssertionTimestampOnly(exif_data, o) ==
    IF IsNone(exif_data.timestamp_s) THEN "No timestamp found" ELSE ""

ExifAssertion(exif_data, o) ==
    IF IsNone(exif_data.timestamp_s) THEN "No timestamp found"
    ELSE IF IsNone(exif_data.latitude) /\ IsNone(o.latitude) THEN "No latitude found"
    ELSE IF IsNone(exif_data.longitude) /\ IsNone(o.longitude) THEN "No longitude found"
    ELSE ""

\* ImageData(...) of one image; a None stays None when the assertion let it pass
MakeImageData(exif_data, o) ==
    [timestamp_s |-> Val(exif_data.timestamp_s),
     latitude |-> IF ~IsNone(exif_data.latitude) THEN Val(exif_data.latitude)
                  ELSE IF ~IsNone(o.latitude) THEN Val(o.latitude) ELSE 0,
     longitude |-> IF ~IsNone(exif_data.longitude) THEN Val(exif_data.longitude)
                   ELSE IF ~IsNone(o.longitude) THEN Val(o.longitude) ELSE 0]

\* sorted(image_paths, key = timestamp): a stable insertion sort
RECURSIVE InsertByKey(_, _, _)
InsertByKey(sorted, x, key) ==
    IF sorted = <<>> THEN <<x>>
    ELSE IF key[sorted[Len(sorted)]] <= key[x] THEN Append(sorted, x)
    ELSE Append(InsertByKey(SubSeq(sorted, 1, Len(sorted) - 1), x, key), sorted[Len(sorted)])

RECURSIVE SortedByKey(_, _)
SortedByKey(paths, key) ==
    IF paths = <<>> THEN <<>>
    ELSE InsertByKey(SortedByKey(SubSeq(paths, 1, Len(paths) - 1), key), paths[Len(paths)], key)

SortedInDiscoveryOrder(paths, data) == paths

SortedImagePaths(paths, data) ==
    SortedByKey(paths, [p \in DOMAIN data |-> data[p].timestamp_s])

\* {image_path: i for i, image_path in enumerate(sorted_image_paths)}: a path
\* listed twice keeps its last index
ImageIds(sorted) ==
    [p \in {sorted[k] : k \in 1..Len(sorted)} |->
        (CHOOSE k \in 1..Len(sorted) :
            /\ sorted[k] = p
            /\ \A j \in (k + 1)..Len(sorted) : sorted[j] # p) - 1]

MainUnchanged == UNCHANGED <<impl, options, exif, output_dirs, output_files>>

Abort(exception) ==
    /\ pc' = "aborted"
    /\ error' = Some([exception |-> exception, task |-> 0])

CheckOptionsStep ==
    /\ pc = "check_options"
    /\ IF CheckOptions(options) # ""
       THEN Abort("AssertionError")
       ELSE pc' = "glob" /\ error' = error
    /\ UNCHANGED <<image_paths, images_data, sorted_image_paths, image_ids,
                   is_first_frame_in_daylight_savings, futures_list, next_image, collected>>
    /\ MainUnchanged

Glob ==
    /\ pc = "glob"
    /\ image_paths' = DiscoverImages(options.input_dirs)
    /\ IF Len(image_paths') > 0
       THEN pc' = "read_exif" /\ error' = error
       ELSE Abort("AssertionError")
    /\ UNCHANGED <<images_data, sorted_image_paths, image_ids,
                   is_first_frame_in_daylight_savings, futures_list, next_image, collected>>
    /\ MainUnchanged

ReadExif ==
    /\ pc = "read_exif"
    /\ next_image <= Len(image_paths)
    /\ LET image_path == image_paths[next_image]
           exif_data == exif[image_path]
       IN  IF ExifAssertion(exif_data, options) # ""
           THEN /\ Abort("AssertionError")
                /\ UNCHANGED <<images_data, next_image>>
           ELSE /\ images_data' = (image_path :> MakeImageData(exif_data, options)) @@ images_data
                /\ next_image' = next_image + 1
                /\ pc' = IF next_image = Len(image_paths) THEN "sort" ELSE "read_exif"
                /\ error' = error
    /\ UNCHANGED <<image_paths, sorted_image_paths, image_ids,
                   is_first_frame_in_daylight_savings, futures_list, collected>>
    /\ MainUnchanged

\* Lines 58-64: the sort, the indices and the first frame's DST status.
Sort ==
    /\ pc = "sort"
    /\ LET sorted == SortedImagePaths(image_paths, images_data)
           first_timestamp_s == images_data[sorted[1]].timestamp_s
           exception == DaylightSavingsException(first_timestamp_s, HardCodedTimezone)
       IN  /\ sorted_image_paths' = sorted
           /\ image_ids' = ImageIds(sorted)
           /\ IF exception # ""
              THEN /\ Abort(exception)
                   /\ UNCHANGED is_first_frame_in_daylight_savings
              ELSE /\ is_first_frame_in_daylight_savings' =
                          Some(IsInDaylightSavings(first_timestamp_s, HardCodedTimezone))
                   /\ pc' = "submit"
                   /\ error' = error
    /\ UNCHANGED <<image_paths, images_data, futures_list, next_image, collected>>
    /\ MainUnchanged

\* executor.submit for the next image of sorted_image_paths
Submit ==
    /\ pc = "submit"
    /\ LET image_path == sorted_image_paths[Len(futures_list) + 1]
       IN  futures_list' = Append(futures_list,
               NewTask(image_path, image_ids[image_path], images_data[image_path]))
    /\ pc' = IF Len(futures_list') = Len(sorted_image_paths) THEN "collect" ELSE "submit"
    /\ UNCHANGED <<image_paths, images_data, sorted_image_paths, image_ids,
                   is_first_frame_in_daylight_savings, next_image, collected, error>>
    /\ MainUnchanged

\* as_completed yields a finished future; future.result() re-raises its exception
Collect ==
    /\ pc = "collect"
    /\ \E t \in Tasks :
          /\ IsTerminal(t)
          /\ t \notin collected
          /\ IF futures_list[t].pc = "failed"
             THEN /\ error' = Some([exception |-> futures_list[t].exception, task |-> t])
                  /\ pc' = "shutdown"
                  /\ collected' = collected
             ELSE /\ collected' = collected \cup {t}
                  /\ pc' = IF collected' = Tasks THEN "shutdown" ELSE "collect"
                  /\ error' = error
    /\ UNCHANGED <<image_paths, images_data, sorted_image_paths, image_ids,
                   is_first_frame_in_daylight_savings, futures_list, next_image>>
    /\ MainUnchanged

\* Leaving the with block: executor.shutdown(wait=True), then return or raise
Shutdown ==
    /\ pc = "shutdown"
    /\ \A t \in Tasks : IsTerminal(t)
    /\ pc' = IF IsNone(error) THEN "done" ELSE "raised"
    /\ UNCHANGED <<image_paths, images_data, sorted_image_paths, image_ids,
                   is_first_frame_in_daylight_savings, futures_list, next_image,
                   collected, error>>
    /\ MainUnchanged

Main == CheckOptionsStep \/ Glob \/ ReadExif \/ Sort \/ Submit \/ Collect \/ Shutdown

---------------------------------------------------------------------------
(* Spec: one run of preprocess_frames *)

Init ==
    /\ impl = "FramePreprocessor"
    /\ options \in OptionChoices
    /\ exif \in ExifChoices
    /\ pc = "check_options"
    /\ image_paths = <<>>
    /\ images_data = <<>>
    /\ sorted_image_paths = <<>>
    /\ image_ids = <<>>
    /\ is_first_frame_in_daylight_savings = None
    /\ futures_list = <<>>
    /\ next_image = 1
    /\ collected = {}
    /\ error = None
    /\ output_dirs = {}
    /\ output_files = {}

Next == Main \/ Worker

Spec == Init /\ [][Next]_vars

\* The threads keep being scheduled: while some thread (the main thread or
\* a thread of the pool) can take a step, a step is eventually taken.
FairSpec == Spec /\ WF_vars(Next)

---------------------------------------------------------------------------
(* FrameSpec: one invocation of a worker, __process_image or process_frame, *)
(* on one frame, with its arguments drawn around the edges of the window.  *)

FrameFadeChoices == {0, 900, 14400}
FrameNightMarginChoices == {0, 3600, 14400}
FrameTimezoneChoices == KnownTimezones \cup {"Mars/Olympus"}
FrameLatitudeChoices == {44, 69}
FrameImageIdChoices == {0, MAX_IMAGES_PER_FOLDER}

\* process_frame reads everything from the options; __process_image reads
\* only the DST switch and the output directory.
FrameOptionChoices(worker, latitude) ==
    IF worker = "FramePreprocessor"
    THEN {[SingleThreadOptions EXCEPT !.ignore_daylight_savings_switch = d] : d \in BOOLEAN}
    ELSE {[SingleThreadOptions EXCEPT
              !.fade_seconds = f, !.night_margin_seconds = m, !.timezone = z,
              !.latitude = Some(latitude), !.longitude = Some(20),
              !.ignore_daylight_savings_switch = d] :
           f \in FrameFadeChoices, m \in FrameNightMarginChoices,
           z \in FrameTimezoneChoices, d \in BOOLEAN}

\* Offsets from an edge of the window, for a fade duration.
FrameOffsets(fade_seconds) ==
    {-1, 0, 1, fade_seconds - 1, fade_seconds, fade_seconds + 1, 3 * SecondsPerHour}

\* Capture times near the earliest and the latest frame of a day and ten
\* minutes before sunrise, as they are or one DST shift away.
FrameTimestamps(latitude, night_margin_seconds, fade_seconds) ==
    {SunriseOf(d, latitude) - night_margin_seconds + x + s * DstShiftSeconds :
        d \in Days, x \in FrameOffsets(fade_seconds), s \in {-1, 0, 1}}
    \cup
    {SunsetOf(d, latitude) + night_margin_seconds - x + s * DstShiftSeconds :
        d \in Days, x \in FrameOffsets(fade_seconds), s \in {-1, 0, 1}}
    \cup
    {SunriseOf(d, latitude) - 600 + s * DstShiftSeconds : d \in Days, s \in {-1, 0, 1}}

FrameInit ==
    /\ impl \in {"FramePreprocessor", "SingleFrameProcessor"}
    /\ \E latitude \in FrameLatitudeChoices :
          /\ options \in FrameOptionChoices(impl, latitude)
          /\ \E timestamp_s \in FrameTimestamps(latitude, WorkerNightMarginSeconds,
                                                WorkerFadeSeconds),
                image_id \in FrameImageIdChoices :
                futures_list = <<NewTask(1, image_id,
                    [timestamp_s |-> timestamp_s, latitude |-> latitude, longitude |-> 20])>>
    /\ is_first_frame_in_daylight_savings \in
          IF options.ignore_daylight_savings_switch THEN {Some(TRUE), Some(FALSE)}
          ELSE {Some(FALSE)}
    /\ exif = [f \in Files |-> [timestamp_s |-> None, latitude |-> None, longitude |-> None]]
    /\ pc = "worker"
    /\ image_paths = <<>>
    /\ images_data = <<>>
    /\ sorted_image_paths = <<>>
    /\ image_ids = <<>>
    /\ next_image = 1
    /\ collected = {}
    /\ error = None
    /\ output_dirs = {}
    /\ output_files = {}

FrameSpec == FrameInit /\ [][Worker]_vars

---------------------------------------------------------------------------
(* Properties *)

HasFlag(path, flag) == \E k \in 1..Len(path.flags) : path.flags[k] = flag

\* C1: of two submitted tasks, the one whose record has the smaller timestamp
\* was handed the smaller sequence index, in every state of the pool (queued,
\* running, finished, in any order), and the index a task holds is the one
\* fixed in image_ids before the first submit.
C1_IndicesFollowTimestamps ==
    /\ \A a, b \in Tasks :
          futures_list[a].image_data.timestamp_s < futures_list[b].image_data.timestamp_s
              => futures_list[a].image_id < futures_list[b].image_id
    /\ \A t \in Tasks :
          /\ futures_list[t].image_id = image_ids[futures_list[t].image_path]
          /\ futures_list[t].image_data = images_data[futures_list[t].image_path]

\* A later frame has finished while an earlier one is still being processed.
C1_Witness ==
    \E a, b \in Tasks :
        /\ futures_list[a].image_data.timestamp_s < futures_list[b].image_data.timestamp_s
        /\ IsRunning(a)
        /\ IsTerminal(b)

\* C2: from the first submit on, the run reaches a state where every image
\* has been submitted and every task has a terminal outcome (skipped, written
\* or failed); as outcomes are final, this holds from any later state too,
\* also from the one where the main thread sees the first failure.
C2_EveryTaskTerminates ==
    (futures_list # <<>>) ~>
        (/\ pc \in {"collect", "shutdown", "done", "raised"}
         /\ Len(futures_list) = Len(sorted_image_paths)
         /\ \A t \in Tasks : IsTerminal(t))

\* The main thread has seen a task fail while another task is still queued.
C2_Witness ==
    /\ pc = "shutdown"
    /\ ~IsNone(error)
    /\ \E t \in Tasks : futures_list[t].pc = "queued"

\* The inputs the outcome of the run names as failed: the one task whose
\* exception future.result() re-raised.
ReportedFailures ==
    IF IsNone(error) \/ Val(error).task = 0 THEN {} ELSE {Val(error).task}

\* C3: when the run has ended, its outcome names every failed task.
C3_ReportNamesEveryFailure ==
    pc \in {"done", "raised"} =>
        {t \in Tasks : futures_list[t].pc = "failed"} \subseteq ReportedFailures

\* A discovered image without a timestamp, or without a latitude or
\* longitude both in its EXIF data and in the options.
IsBadInput(image_path) ==
    \/ IsNone(exif[image_path].timestamp_s)
    \/ IsNone(exif[image_path].latitude) /\ IsNone(options.latitude)
    \/ IsNone(exif[image_path].longitude) /\ IsNone(options.longitude)

Discovered == DiscoverImages(options.input_dirs)

NothingDispatchedOrWritten ==
    /\ futures_list = <<>>
    /\ output_dirs = {}
    /\ output_files = {}
    /\ pc \in {"check_options", "glob", "read_exif", "aborted"}

\* C4: when some discovered image is a bad input, no task is ever submitted
\* and nothing is created under the output directory, and the main thread
\* never gets past the EXIF loop.
C4_BadInputAborts ==
    (\E k \in 1..Len(Discovered) : IsBadInput(Discovered[k])) => NothingDispatchedOrWritten

\* The run aborted on a bad input that is the last of several discovered.
C4_Witness ==
    /\ pc = "aborted"
    /\ Len(image_paths) > 1
    /\ next_image = Len(image_paths)
    /\ IsBadInput(image_paths[next_image])
    /\ \A k \in 1..(next_image - 1) : ~IsBadInput(image_paths[k])

\* The invalid configurations the specification lists.
IsInvalidConfiguration(o) ==
    \/ o.output_dir_exists
    \/ Len(o.input_dirs) = 0
    \/ \E k \in 1..Len(o.input_dirs) : o.input_dirs[k] \notin ExistingDirs
    \/ \E j, k \in 1..Len(o.input_dirs) : j # k /\ o.input_dirs[j] = o.input_dirs[k]
    \/ o.worker_thread_count < 1
    \/ ~IsNone(o.latitude) /\ (Val(o.latitude) < -90 \/ Val(o.latitude) > 90)
    \/ ~IsNone(o.longitude) /\ (Val(o.longitude) < -180 \/ Val(o.longitude) > 180)
    \/ o.fade_seconds < 0 \/ o.fade_seconds > 14400
    \/ o.night_margin_seconds < 0 \/ o.night_margin_seconds > 14400
    \/ ~IsNone(o.resize_to_width) /\ (Val(o.resize_to_width) < 1 \/ Val(o.resize_to_width) > 10000)
    \/ o.timezone \notin KnownTimezones
    \/ Len(DiscoverImages(o.input_dirs)) = 0

\* C5: a run with an invalid configuration submits no task and creates nothing.
C5_InvalidConfigurationAborts ==
    IsInvalidConfiguration(options) => NothingDispatchedOrWritten

\* C6: a frame in a fade range whose progress has been computed has
\* 0 <= progress <= 1, and no worker ends on the progress assertion.
C6_ProgressInUnitInterval ==
    \A t \in Tasks :
        LET task == futures_list[t]
        IN  /\ task.exception # "AssertionError"
            /\ (task.kind = "fade" /\ ~IsNone(task.progress)) =>
                  /\ task.progress[2] > 0
                  /\ 0 <= task.progress[1]
                  /\ task.progress[1] <= task.progress[2]

\* A frame at the very end of a 14400 s fade range was written at progress 1.
C6_Witness ==
    \E t \in Tasks :
        LET task == futures_list[t]
        IN  /\ impl = "SingleFrameProcessor"
            /\ options.fade_seconds = 14400
            /\ task.pc = "written"
            /\ task.kind = "fade"
            /\ task.progress = <<14400, 14400>>

\* The frame is inside the window of its day: the worker has computed the
\* sun events and it is at or after sunrise - margin and at or before
\* sunset + margin.
InsideWindow(task) ==
    /\ ~IsNone(task.sunrise)
    /\ Val(task.adjusted) >= Val(task.sunrise) - WorkerNightMarginSeconds
    /\ Val(task.adjusted) <= Val(task.sunset) + WorkerNightMarginSeconds

\* C7: with fade_seconds = 0, a frame inside the window is copied at full
\* intensity and its worker never divides by zero.
C7_ZeroFadePassesThrough ==
    \A t \in Tasks :
        LET task == futures_list[t]
        IN  (impl = "SingleFrameProcessor" /\ options.fade_seconds = 0 /\ InsideWindow(task)) =>
                /\ task.exception # "ZeroDivisionError"
                /\ task.pc \in {"copy", "imread", "imwrite", "written"} => task.kind = "copy"

\* The reference rule of the DST adjustment.
ReferenceAdjustment(raw, enabled, reference_in_dst, frame_in_dst) ==
    CASE ~enabled -> raw
      [] enabled /\ reference_in_dst /\ ~frame_in_dst -> raw - 3600
      [] enabled /\ ~reference_in_dst /\ frame_in_dst -> raw + 3600
      [] OTHER -> raw

DstFrameAfterStandardStart(task) ==
    /\ impl = "SingleFrameProcessor"
    /\ options.ignore_daylight_savings_switch
    /\ is_first_frame_in_daylight_savings = Some(FALSE)
    /\ DstStatus(task.image_data.timestamp_s, options.timezone) = "dst"
    /\ ~IsNone(task.adjusted)

\* C9 as stated: such a frame gets raw - 3600 and a _d suffix.
C9_Original ==
    \A t \in Tasks :
        LET task == futures_list[t]
        IN  DstFrameAfterStandardStart(task) =>
                /\ Val(task.adjusted) = task.image_data.timestamp_s - 3600
                /\ ~IsNone(task.new_image_path) => HasFlag(Val(task.new_image_path), "_d")

\* C9 amended: such a frame gets raw + 3600, and its file name, once
\* generated, carries the _d suffix.
C9_DstFrameMovedForward ==
    \A t \in Tasks :
        LET task == futures_list[t]
        IN  DstFrameAfterStandardStart(task) =>
                /\ Val(task.adjusted) = task.image_data.timestamp_s + 3600
                /\ ~IsNone(task.new_image_path) => HasFlag(Val(task.new_image_path), "_d")

\* Such a frame was written under a name with the _d suffix.
C9_Witness ==
    \E t \in Tasks :
        LET task == futures_list[t]
        IN  /\ DstFrameAfterStandardStart(task)
            /\ task.pc = "written"
            /\ Val(task.new_image_path) \in output_files
            /\ HasFlag(Val(task.new_image_path), "_d")

\* The frame is before sunrise - margin or after sunset + margin.
OutsideWindow(task) ==
    /\ ~IsNone(task.sunrise)
    /\ \/ Val(task.adjusted) < Val(task.sunrise) - WorkerNightMarginSeconds
       \/ Val(task.adjusted) > Val(task.sunset) + WorkerNightMarginSeconds

\* C10: a frame outside the window is skipped: its worker has returned
\* without an exception, generated no output path, and no subfolder or file
\* exists under the output directory.
C10_OutsideWindowSkipped ==
    \A t \in Tasks :
        LET task == futures_list[t]
        IN  OutsideWindow(task) =>
                /\ task.pc = "skipped"
                /\ task.exception = ""
                /\ IsNone(task.new_image_path)
                /\ output_dirs = {}
                /\ output_files = {}

\* A frame one second after sunset + margin was skipped.
C10_Witness ==
    \E t \in Tasks :
        LET task == futures_list[t]
        IN  /\ task.pc = "skipped"
            /\ Val(task.adjusted) = Val(task.sunset) + WorkerNightMarginSeconds + 1
            /\ output_dirs = {}
            /\ output_files = {}

\* The case of C11: process_frame with a night margin of 3600 s and a fade
\* of 900 s, on a frame whose adjusted timestamp is 600 s before the sunrise
\* the worker computed.
TenMinutesBeforeSunrise(task) ==
    /\ impl = "SingleFrameProcessor"
    /\ options.night_margin_seconds = 3600
    /\ options.fade_seconds = 900
    /\ ~IsNone(task.sunrise)
    /\ Val(task.adjusted) = Val(task.sunrise) - 600

\* C11 as stated: such a frame is darkened, its name carries _b, and its
\* progress is strictly between 0 and 1.
C11_Original ==
    \A t \in Tasks :
        LET task == futures_list[t]
        IN  TenMinutesBeforeSunrise(task) =>
                /\ task.kind = "fade"
                /\ HasFlag(Val(task.new_image_path), "_b")
                /\ ~IsNone(task.progress) =>
                      0 < task.progress[1] /\ task.progress[1] < task.progress[2]

\* C11 amended: such a frame is 3000 s past the earliest frame, beyond the
\* 900 s fade range; it is copied, not darkened, no progress is computed for
\* it, and its name carries _b.
C11_BeforeSunriseCopied ==
    \A t \in Tasks :
        LET task == futures_list[t]
        IN  TenMinutesBeforeSunrise(task) =>
                /\ task.kind = "copy"
                /\ IsNone(task.progress)
                /\ task.pc \in {"mkdir", "copy", "written", "failed"}
                /\ task.exception \in {"", "OSError"}
                /\ HasFlag(Val(task.new_image_path), "_b")

\* Such a frame was copied to a file whose name carries _b.
C11_Witness ==
    \E t \in Tasks :
        LET task == futures_list[t]
        IN  /\ TenMinutesBeforeSunrise(task)
            /\ task.pc = "written"
            /\ task.kind = "copy"
            /\ Val(task.new_image_path) \in output_files
            /\ HasFlag(Val(task.new_image_path), "_b")

\* C12: once every discovered image has been submitted, the N tasks carry
\* the indices 0..N-1, each index held by exactly one task, and no two tasks
\* have generated the same output path.
C12_IndicesDenseAndDistinct ==
    pc \in {"collect", "shutdown", "done", "raised"} =>
        /\ Len(futures_list) = Len(image_paths)
        /\ \A i \in 0..(Len(futures_list) - 1) :
              Cardinality({t \in Tasks : futures_list[t].image_id = i}) = 1
        /\ \A a, b \in Tasks :
              (a # b /\ ~IsNone(futures_list[a].new_image_path))
                  => futures_list[a].new_image_path # futures_list[b].new_image_path

\* The smallest raw timestamp of the input set.
EarliestTimestamp ==
    CHOOSE ts \in {images_data[p].timestamp_s : p \in DOMAIN images_data} :
        \A p \in DOMAIN images_data : ts <= images_data[p].timestamp_s

\* C13: in a run with DST correction, from the first submit on the reference
\* DST status is set, and it is the DST predicate of the smallest raw
\* timestamp in the timezone of the options.
C13_ReferenceInConfiguredTimezone ==
    (options.ignore_daylight_savings_switch /\ futures_list # <<>>
        /\ options.timezone \in KnownTimezones) =>
        /\ ~IsNone(is_first_frame_in_daylight_savings)
        /\ Val(is_first_frame_in_daylight_savings)
              = IsInDaylightSavings(EarliestTimestamp, options.timezone)

====
